---- MODULE Spec2Model ----
(***************************************************************************)
(* Model of the web-scanner edge function (supabase/functions/web-scanner, *)
(* kept in src/unnamed/part_000): the request handler, processScan with    *)
(* its rate-limit bookkeeping, performScan with its six analyzers, and the *)
(* two aggregation functions extractTopIssues and calculateOverallScore.   *)
(*                                                                         *)
(* A fetched page is represented by what the analyzers' regular            *)
(* expressions measure on it (the number of matches of each pattern, the   *)
(* presence of each header), not by its text.                              *)
(***************************************************************************)
EXTENDS Integers, Sequences, FiniteSets, TLC

VARIABLES
    \* one scan under study (performScan and the aggregations)
    url,            \* the url argument of the scan
    env,            \* the configuration and runtime of the function
    response,       \* what the last fetch of an analyzer was answered
    results,        \* performScan's local `results` (six slots)
    step,           \* position of the scan
    assigned,       \* how many times each slot of `results` was assigned
    topIssues,      \* processScan's local topIssues
    overallScore,   \* processScan's local overallScore
    fetches,        \* the fetches the analyzers of the scan have made, in order
    \* the service (the handler, processScan and the store)
    now,            \* Date.now(), in ticks
    pc,             \* position of each processScan invocation
    locals,         \* the locals of each processScan invocation
    rate_limits,    \* the rows of table rate_limits
    scan_results,   \* the row of table scan_results of each scan
    answered,       \* what the function last called for each scan answered its caller
    started,        \* number of scan requests received so far
    admitted,       \* per host, the times at which a scan passed the rate-limit check
    observed        \* per scan: why it ended, whether the target was fetched, and how
                    \* the summarization of a saved scan went

scanVars == <<url, env, response, results, step, assigned, topIssues, overallScore, fetches>>

serviceVars == <<now, pc, locals, rate_limits, scan_results, answered, started, admitted, observed>>

vars == <<url, env, response, results, step, assigned, topIssues, overallScore, fetches,
          now, pc, locals, rate_limits, scan_results, answered, started, admitted, observed>>

----------------------------------------------------------------------------
(* Bounds of the model *)

MaxImg == 2         \* <img> tags without alt on a page
MaxInputs == 3      \* <input> tags on a page
MaxH1 == 2          \* <h1> tags on a page
MaxButtons == 6     \* <button> elements of a page with many buttons
MaxCalls == 11      \* call sites in the scripts of a page with many calls
MaxCount == 1       \* matches of every other counted pattern on a page

----------------------------------------------------------------------------
(* Values *)

NoError == "none"
NoCount == 0 - 1       \* an issue without a `count` property
Unset == 0 - 1         \* a local that has not been computed yet

AnalyzerNames == {"e2e", "api", "security", "performance", "accessibility", "techStack"}

\* const results = { e2e: { status: 'pending' }, ... }
PendingResults == [a \in AnalyzerNames |-> [status |-> "pending"]]

Urls == {[https |-> TRUE, host |-> "a.test"], [https |-> FALSE, host |-> "a.test"]}

\* url.startsWith("https")
startsWithHttps(u) == u.https

\* A fetch that threw (abort after the timeout, DNS/TLS/network failure) or
\* whose body could not be read.
FetchErrors == {[kind |-> "error", error |-> "The signal has been aborted"],
                [kind |-> "error", error |-> "network error"]}

HasField(r, f) == f \in DOMAIN r

RECURSIVE SumSeq(_)
SumSeq(s) == IF s = <<>> THEN 0 ELSE Head(s) + SumSeq(Tail(s))

When(c, x) == IF c THEN <<x>> ELSE <<>>

----------------------------------------------------------------------------
(* performSecurityScan *)

SecurityIssue(sev, desc) == [severity |-> sev, category |-> "Security", description |-> desc]

\* the response headers and the part of the body the security checks read
SecurityPages ==
    [kind : {"http"},
     hsts : BOOLEAN, xcto : BOOLEAN, xfo : BOOLEAN, csp : BOOLEAN, xxss : BOOLEAN,
     cookieWrite : BOOLEAN]

\* the missing Content-Security-Policy reported once
securityIssuesCspOnce(r) ==
       When(~r.hsts, SecurityIssue("high", "Missing HSTS header"))
    \o When(~r.xcto, SecurityIssue("medium", "Missing X-Content-Type-Options header"))
    \o When(~r.xfo /\ ~r.csp, SecurityIssue("high", "Missing X-Frame-Options/CSP"))
    \o When(~r.csp /\ r.xfo, SecurityIssue("medium", "No Content-Security-Policy"))
    \o When(~r.xxss, SecurityIssue("low", "Missing X-XSS-Protection header"))
    \o When(r.cookieWrite, SecurityIssue("high", "JavaScript cookie manipulation detected"))

securityIssues(r) ==
       When(~r.hsts, SecurityIssue("high", "Missing HSTS header"))
    \o When(~r.xcto, SecurityIssue("medium", "Missing X-Content-Type-Options header"))
    \o When(~r.xfo /\ ~r.csp, SecurityIssue("high", "Missing X-Frame-Options/CSP"))
    \o When(~r.csp, SecurityIssue("medium", "No Content-Security-Policy"))
    \o When(~r.xxss, SecurityIssue("low", "Missing X-XSS-Protection header"))
    \o When(r.cookieWrite, SecurityIssue("high", "JavaScript cookie manipulation detected"))

\* as if there were six checks
checkPassedOfSix(issues) == 6 - Len(issues)

checksPassed(issues) == 7 - Len(issues)

performSecurityScan(u, r) ==
    IF r.kind = "error"
    THEN [status |-> "failed", error |-> r.error, issues |-> <<>>,
          checks_performed |-> 0, checks_passed |-> 0, https_enabled |-> FALSE]
    ELSE LET issues == securityIssues(r)
         IN  [status |-> "completed", error |-> NoError, issues |-> issues,
              checks_performed |-> 7, checks_passed |-> checksPassed(issues),
              https_enabled |-> startsWithHttps(u)]

----------------------------------------------------------------------------
(* performAccessibilityScan *)

A11yIssue(sev, n, msg, ref) == [severity |-> sev, count |-> n, message |-> <<msg, n>>, wcag |-> ref]

\* the number of matches of each pattern of the accessibility checks
AccessibilityPages ==
    [kind : {"http"},
     imgWithoutAlt : 0..MaxImg, hasLang : BOOLEAN, buttonWithoutText : 0..MaxCount,
     inputCount : 0..MaxInputs, labelCount : 0..MaxCount,
     h1Count : 0..MaxH1, otherHeadings : 0..MaxCount,
     linksWithoutText : 0..MaxCount, hasSkipLink : BOOLEAN, tabindexNegative : 0..MaxCount]

accessibilityIssues(r) ==
    LET headings == r.h1Count + r.otherHeadings
    IN     When(r.imgWithoutAlt > 0,
                A11yIssue("critical", r.imgWithoutAlt, "images missing alt text", "1.1.1"))
        \o When(~r.hasLang,
                A11yIssue("high", NoCount, "Missing lang attribute on html element", "3.1.1"))
        \o When(r.buttonWithoutText > 0,
                A11yIssue("critical", r.buttonWithoutText, "buttons without accessible text", "4.1.2"))
        \o When(r.inputCount > r.labelCount + 2,
                A11yIssue("high", r.inputCount - r.labelCount, "form inputs possibly without labels", "1.3.1, 3.3.2"))
        \o (IF r.h1Count = 0 /\ headings > 0
            THEN <<A11yIssue("medium", NoCount, "Page has no H1 heading", "1.3.1")>>
            ELSE IF r.h1Count > 1
            THEN <<[severity |-> "medium", count |-> NoCount,
                    message |-> <<"H1 headings - should typically have only one", r.h1Count>>,
                    wcag |-> "Best Practice"]>>
            ELSE <<>>)
        \o When(r.linksWithoutText > 0,
                A11yIssue("high", r.linksWithoutText, "links without text", "2.4.4"))
        \o When(~r.hasSkipLink,
                A11yIssue("low", NoCount, "No skip navigation link found", "2.4.1"))
        \o When(r.tabindexNegative > 0,
                A11yIssue("medium", r.tabindexNegative, "elements with negative tabindex", "2.1.1"))

\* 'high' missing from the table
severityPointsNoHigh(sev) ==
    CASE sev = "critical" -> 25
      [] sev = "medium" -> 8
      [] sev = "low" -> 3
      [] OTHER -> 10

\* severityPoints[issue.severity] || 10
severityPoints(sev) ==
    CASE sev = "critical" -> 25
      [] sev = "high" -> 15
      [] sev = "medium" -> 8
      [] sev = "low" -> 3
      [] OTHER -> 10

totalDeduction(issues) == SumSeq([i \in 1..Len(issues) |-> severityPoints(issues[i].severity)])

Max(a, b) == IF a >= b THEN a ELSE b

\* without the floor at 0
a11yScoreNoFloor(issues) == 100 - totalDeduction(issues)

a11yScore(issues) == Max(0, 100 - totalDeduction(issues))

performAccessibilityScan(r) ==
    IF r.kind = "error"
    THEN [status |-> "failed", error |-> r.error, issues |-> <<>>, total_issues |-> 0,
          score |-> 0, wcag_level |-> "Unable to determine"]
    ELSE LET issues == accessibilityIssues(r)
         IN  [status |-> "completed", error |-> NoError, issues |-> issues,
              total_issues |-> Len(issues),
              score |-> a11yScore(issues),
              wcag_level |-> IF \E i \in 1..Len(issues) : issues[i].severity \in {"critical", "high"}
                             THEN "Fails Level A"
                             ELSE "Passes Level A (potential AA issues)"]

----------------------------------------------------------------------------
(* performE2EScan *)

ButtonTexts == {"", "Buy"}      \* trimmed text content of a <button>

\* 200 is the only ok status of the three
HttpStatuses == {200, 404, 500}

isOk(status) == status >= 200 /\ status <= 299

\* `HTTP ${response.status}`
httpError(status) ==
    CASE status = 200 -> "HTTP 200"
      [] status = 404 -> "HTTP 404"
      [] status = 500 -> "HTTP 500"

RECURSIVE SeqsUpTo(_, _)
SeqsUpTo(S, n) ==
    IF n = 0 THEN {<<>>}
    ELSE LET shorter == SeqsUpTo(S, n - 1)
         IN  shorter \cup {Append(q, x) : q \in {t \in shorter : Len(t) = n - 1}, x \in S}

Take(s, n) == SubSeq(s, 1, IF Len(s) < n THEN Len(s) ELSE n)

NonEmptyText(t) == t # ""

\* buttons.map(text).filter(Boolean).slice(0, 5)
domPrimaryActions(buttons) == Take(SelectSeq(buttons, NonEmptyText), 5)

\* buttonMatches.slice(0, 5).map(strip tags, trim).filter(s => s)
regexPrimaryActions(buttons) == SelectSeq(Take(buttons, 5), NonEmptyText)

\* doc.querySelectorAll('a[href]'): every a element with an href attribute,
\* quoted or not
domLinks(r) == r.links + r.unquotedLinks

\* /<a[^>]*href=["']([^"']*)["'][^>]*>/gi: every tag whose name starts with
\* "a" and that has a quoted href, <area href="..."> included
regexLinks(r) == r.links + r.areaLinks

\* doc.querySelectorAll('form'): the form elements of the document
domForms(r) == r.forms

\* /<form[^>]*>/gi: every "<form" of the text, inside a comment or not
regexForms(r) == r.forms + r.commentedForms

performE2EScan(r, domParser) ==
    IF r.kind = "error"
    THEN [status |-> "failed", error |-> r.error, buttons_found |-> 0, links_found |-> 0,
          forms_found |-> 0, primary_actions |-> <<>>]
    ELSE IF ~isOk(r.status)
    THEN [status |-> "failed", error |-> httpError(r.status), buttons_found |-> 0,
          links_found |-> 0, forms_found |-> 0, primary_actions |-> <<>>]
    ELSE [status |-> "completed", error |-> NoError, buttons_found |-> Len(r.buttons),
          links_found |-> IF domParser THEN domLinks(r) ELSE regexLinks(r),
          forms_found |-> IF domParser THEN domForms(r) ELSE regexForms(r),
          primary_actions |-> IF domParser THEN domPrimaryActions(r.buttons)
                              ELSE regexPrimaryActions(r.buttons)]

----------------------------------------------------------------------------
(* performAPIScan *)

\* quoted literals of fetch("..."), axios.verb("...") and $.ajax("...") calls
CallLiterals == {"/api/users", "https://cdn.test/data.json"}

\* the literals that begin with "/"
SlashPaths == {"/api/users", "/api/orders"}

startsWithSlash(path) == path \in SlashPaths

Endpoint(path) == [method |-> "GET", path |-> path, status |-> 0]

\* every literal kept, whatever it begins with
apiEndpointsUnfiltered(calls) == [i \in 1..Len(calls) |-> Endpoint(calls[i])]

apiEndpoints(calls) ==
    LET kept == SelectSeq(calls, startsWithSlash)
    IN  [i \in 1..Len(kept) |-> Endpoint(kept[i])]

\* the api analyzer failing on a non-OK status as the e2e analyzer does
performAPIScanOkOnly(r) ==
    IF r.kind = "error"
    THEN [status |-> "failed", error |-> r.error, endpoints_detected |-> 0, endpoints |-> <<>>]
    ELSE IF "status" \in DOMAIN r /\ ~isOk(r.status)
    THEN [status |-> "failed", error |-> httpError(r.status), endpoints_detected |-> 0,
          endpoints |-> <<>>]
    ELSE LET endpoints == apiEndpoints(r.calls)
         IN  [status |-> "completed", error |-> NoError,
              endpoints_detected |-> Len(endpoints), endpoints |-> Take(endpoints, 10)]

performAPIScan(r) ==
    IF r.kind = "error"
    THEN [status |-> "failed", error |-> r.error, endpoints_detected |-> 0, endpoints |-> <<>>]
    ELSE LET endpoints == apiEndpoints(r.calls)
         IN  [status |-> "completed", error |-> NoError,
              endpoints_detected |-> Len(endpoints), endpoints |-> Take(endpoints, 10)]

----------------------------------------------------------------------------
(* performPerformanceScan, performGooglePageSpeedScan, performBasicPerformanceScan *)

\* performance.now() difference of the basic scan's fetch, in milliseconds
LoadTimes == {800, 2000, 3500}

\* scores of the performance category as the page-speed API reports them, in
\* thousandths (0.0 .. 1.0)
PageSpeedScores == {0, 495, 1000}

\* Math.round(score * 100) for a score given in thousandths
roundPercent(thousandths) == (thousandths + 5) \div 10

\* the page-speed result tagged as if it came from the basic scan
performGooglePageSpeedScanAsBasic(r) ==
    [status |-> "completed", error |-> NoError, score |-> roundPercent(r.performance),
     load_time_ms |-> r.observedLoad,
     lighthouse_scores |-> [performance |-> roundPercent(r.performance), seo |-> roundPercent(r.seo)],
     source |-> "basic-scan"]

performGooglePageSpeedScan(r) ==
    [status |-> "completed", error |-> NoError, score |-> roundPercent(r.performance),
     load_time_ms |-> r.observedLoad,
     lighthouse_scores |-> [performance |-> roundPercent(r.performance), seo |-> roundPercent(r.seo)],
     source |-> "google-pagespeed"]

\* the thresholds taken as reached rather than passed
basicScoreInclusive(r) ==
    LET s0 == 100
        s1 == IF r.loadTime >= 3000 THEN s0 - 30 ELSE IF r.loadTime >= 1500 THEN s0 - 15 ELSE s0
        s2 == IF r.imageCount >= 20 THEN s1 - 10 ELSE s1
        s3 == IF r.scriptCount >= 15 THEN s2 - 10 ELSE s2
        s4 == IF r.stylesheetCount >= 5 THEN s3 - 5 ELSE s3
        s5 == IF ~r.hasGzip THEN s4 - 15 ELSE s4
        s6 == IF ~r.hasCaching THEN s5 - 10 ELSE s5
    IN  Max(0, s6)

basicScore(r) ==
    LET s0 == 100
        s1 == IF r.loadTime > 3000 THEN s0 - 30 ELSE IF r.loadTime > 1500 THEN s0 - 15 ELSE s0
        s2 == IF r.imageCount > 20 THEN s1 - 10 ELSE s1
        s3 == IF r.scriptCount > 15 THEN s2 - 10 ELSE s2
        s4 == IF r.stylesheetCount > 5 THEN s3 - 5 ELSE s3
        s5 == IF ~r.hasGzip THEN s4 - 15 ELSE s4
        s6 == IF ~r.hasCaching THEN s5 - 10 ELSE s5
    IN  Max(0, s6)

\* the basic scan reporting its score as the seo score too
performBasicPerformanceScanSameSeo(r) ==
    LET score == basicScore(r)
    IN  [status |-> "completed", error |-> NoError, score |-> score, load_time_ms |-> r.loadTime,
         image_count |-> r.imageCount, scripts_count |-> r.scriptCount,
         stylesheets_count |-> r.stylesheetCount,
         compression_enabled |-> r.hasGzip, caching_enabled |-> r.hasCaching,
         lighthouse_scores |-> [performance |-> score, seo |-> score],
         source |-> "basic-scan"]

performBasicPerformanceScan(r) ==
    LET score == basicScore(r)
    IN  [status |-> "completed", error |-> NoError, score |-> score, load_time_ms |-> r.loadTime,
         image_count |-> r.imageCount, scripts_count |-> r.scriptCount,
         stylesheets_count |-> r.stylesheetCount,
         compression_enabled |-> r.hasGzip, caching_enabled |-> r.hasCaching,
         lighthouse_scores |-> [performance |-> score, seo |-> Max(0, score - 10)],
         source |-> "basic-scan"]

\* a failure that carries no error
performanceFailedSilently(r) ==
    [status |-> "failed", score |-> 0, load_time_ms |-> 0]

\* the catch block of performPerformanceScan
performanceFailed(r) ==
    [status |-> "failed", error |-> r.error, score |-> 0, load_time_ms |-> 0]

----------------------------------------------------------------------------
(* detectTechStack *)

NoValue == "undefined"      \* an absent header, an undefined version

Tech(name, confidence, version, category) ==
    [name |-> name, confidence |-> confidence, version |-> version, category |-> category]

\* which signatures the body matches, and the three header families
TechPages ==
    [kind : {"http"},
     next : BOOLEAN, react : BOOLEAN, nuxt : BOOLEAN, vue : BOOLEAN, angular : BOOLEAN,
     wordpress : BOOLEAN, drupal : BOOLEAN, svelte : BOOLEAN, jquery : BOOLEAN,
     tailwindWord : BOOLEAN, utilityClass : BOOLEAN, bootstrapClass : BOOLEAN,
     poweredBy : {NoValue, "Express"}, server : {NoValue, "nginx/1.25"}, aspnet : BOOLEAN]

\* server.split("/")[0] and server.split("/")[1]
serverName(server) == IF server = "nginx/1.25" THEN "nginx" ELSE server
serverVersion(server) == IF server = "nginx/1.25" THEN "1.25" ELSE NoValue

\* the Svelte rule evaluated with the other framework rules, before the CMS rules
techDetectedFrameworksFirst(r) ==
       (IF r.next THEN <<Tech("Next.js", "high", NoValue, "Framework")>>
        ELSE IF r.react THEN <<Tech("React", "medium", NoValue, "Library")>> ELSE <<>>)
    \o (IF r.nuxt THEN <<Tech("Nuxt.js", "high", NoValue, "Framework")>>
        ELSE IF r.vue THEN <<Tech("Vue.js", "medium", NoValue, "Framework")>> ELSE <<>>)
    \o When(r.angular, Tech("Angular", "high", NoValue, "Framework"))
    \o When(r.svelte, Tech("Svelte", "medium", NoValue, "Framework"))
    \o When(r.wordpress, Tech("WordPress", "high", NoValue, "CMS"))
    \o When(r.drupal, Tech("Drupal", "high", NoValue, "CMS"))
    \o When(r.jquery, Tech("jQuery", "high", NoValue, "Library"))
    \o When(r.tailwindWord \/ r.utilityClass, Tech("Tailwind CSS", "medium", NoValue, "CSS Framework"))
    \o When(r.bootstrapClass /\ ~r.tailwindWord, Tech("Bootstrap", "low", NoValue, "CSS Framework"))
    \o When(r.poweredBy # NoValue, Tech(r.poweredBy, "high", NoValue, "Server"))
    \o When(r.server # NoValue, Tech(serverName(r.server), "high", serverVersion(r.server), "Web Server"))
    \o When(r.aspnet, Tech("ASP.NET", "high", NoValue, "Framework"))

techDetected(r) ==
       (IF r.next THEN <<Tech("Next.js", "high", NoValue, "Framework")>>
        ELSE IF r.react THEN <<Tech("React", "medium", NoValue, "Library")>> ELSE <<>>)
    \o (IF r.nuxt THEN <<Tech("Nuxt.js", "high", NoValue, "Framework")>>
        ELSE IF r.vue THEN <<Tech("Vue.js", "medium", NoValue, "Framework")>> ELSE <<>>)
    \o When(r.angular, Tech("Angular", "high", NoValue, "Framework"))
    \o When(r.wordpress, Tech("WordPress", "high", NoValue, "CMS"))
    \o When(r.drupal, Tech("Drupal", "high", NoValue, "CMS"))
    \o When(r.svelte, Tech("Svelte", "medium", NoValue, "Framework"))
    \o When(r.jquery, Tech("jQuery", "high", NoValue, "Library"))
    \o When(r.tailwindWord \/ r.utilityClass, Tech("Tailwind CSS", "medium", NoValue, "CSS Framework"))
    \o When(r.bootstrapClass /\ ~r.tailwindWord, Tech("Bootstrap", "low", NoValue, "CSS Framework"))
    \o When(r.poweredBy # NoValue, Tech(r.poweredBy, "high", NoValue, "Server"))
    \o When(r.server # NoValue, Tech(serverName(r.server), "high", serverVersion(r.server), "Web Server"))
    \o When(r.aspnet, Tech("ASP.NET", "high", NoValue, "Framework"))

detectTechStack(r) ==
    IF r.kind = "error"
    THEN [status |-> "failed", error |-> r.error, detected |-> <<>>, total_detected |-> 0]
    ELSE LET detected == techDetected(r)
         IN  [status |-> "completed", error |-> NoError, detected |-> detected,
              total_detected |-> Len(detected)]

----------------------------------------------------------------------------
(* extractTopIssues *)

TopIssue(category, severity, description) ==
    [category |-> category, severity |-> severity, description |-> description]

\* sortOrder[severity]
sortOrder(sev) ==
    CASE sev = "critical" -> 0
      [] sev = "high" -> 1
      [] sev = "medium" -> 2
      [] sev = "low" -> 3

\* (sortOrder[a.severity] || 99): 0 is falsy, so is a severity outside the table
sortKey(sev) ==
    IF sev \in {"critical", "high", "medium", "low"} /\ sortOrder(sev) # 0
    THEN sortOrder(sev) ELSE 99

\* Array.prototype.sort is stable: insert each element after the last one
\* whose key is not greater
RECURSIVE InsertSorted(_, _)
InsertSorted(sorted, x) ==
    IF sorted = <<>> THEN <<x>>
    ELSE LET last == sorted[Len(sorted)]
         IN  IF sortKey(last.severity) - sortKey(x.severity) <= 0
             THEN Append(sorted, x)
             ELSE Append(InsertSorted(SubSeq(sorted, 1, Len(sorted) - 1), x), last)

RECURSIVE SortIssues(_)
SortIssues(issues) ==
    IF issues = <<>> THEN <<>>
    ELSE InsertSorted(SortIssues(SubSeq(issues, 1, Len(issues) - 1)), issues[Len(issues)])

\* the accessibility issues pushed before the security issues
collectIssuesAccessibilityFirst(scanResults) ==
    LET sec == scanResults.security
        acc == scanResults.accessibility
        perf == scanResults.performance
    IN     (IF HasField(acc, "issues")
            THEN [i \in 1..Len(acc.issues) |->
                    TopIssue("Accessibility", acc.issues[i].severity, acc.issues[i].message)]
            ELSE <<>>)
        \o (IF HasField(sec, "issues")
            THEN [i \in 1..Len(sec.issues) |->
                    TopIssue(sec.issues[i].category, sec.issues[i].severity, sec.issues[i].description)]
            ELSE <<>>)
        \o When(HasField(perf, "score") /\ perf.score < 50,
                TopIssue("Performance", "high", <<"Poor performance score", perf.score>>))

collectIssues(scanResults) ==
    LET sec == scanResults.security
        acc == scanResults.accessibility
        perf == scanResults.performance
    IN     (IF HasField(sec, "issues")
            THEN [i \in 1..Len(sec.issues) |->
                    TopIssue(sec.issues[i].category, sec.issues[i].severity, sec.issues[i].description)]
            ELSE <<>>)
        \o (IF HasField(acc, "issues")
            THEN [i \in 1..Len(acc.issues) |->
                    TopIssue("Accessibility", acc.issues[i].severity, acc.issues[i].message)]
            ELSE <<>>)
        \o When(HasField(perf, "score") /\ perf.score < 50,
                TopIssue("Performance", "high", <<"Poor performance score", perf.score>>))

extractTopIssues(scanResults) == Take(SortIssues(collectIssues(scanResults)), 10)

----------------------------------------------------------------------------
(* calculateOverallScore *)

\* the weights, in hundredths
weights == [security |-> 30, performance |-> 25, accessibility |-> 25, e2e |-> 10, api |-> 10]

\* failed analyzers counted too
NotPending(slot) == slot.status # "pending"

Completed(slot) == slot.status = "completed"

\* x || d for a number x
OrElse(x, d) == IF x = 0 THEN d ELSE x

\* Math.round(q) for q = num / den, den > 0: the nearest integer, a tie going up
roundDiv(num, den) == (2 * num + den) \div (2 * den)

\* totalScore and totalWeight are kept as exact fractions over the common
\* denominator 100 * checks_performed; on every input of this model the
\* double-precision computation of the source rounds to the same integer
calculateOverallScore(scanResults) ==
    LET sec == scanResults.security
        perf == scanResults.performance
        acc == scanResults.accessibility
        e2e == scanResults.e2e
        api == scanResults.api
        den == IF Completed(sec) THEN OrElse(sec.checks_performed, 1) ELSE 1
        secPart == IF Completed(sec) THEN sec.checks_passed * 100 * weights.security ELSE 0
        perfPart == IF Completed(perf) THEN perf.score * weights.performance ELSE 0
        accPart == IF Completed(acc) THEN acc.score * weights.accessibility ELSE 0
        e2ePart == IF Completed(e2e)
                   THEN (IF e2e.buttons_found > 0 THEN 80 ELSE 50) * weights.e2e ELSE 0
        apiPart == IF Completed(api) THEN 70 * weights.api ELSE 0
        totalScore == secPart + den * (perfPart + accPart + e2ePart + apiPart)
        totalWeight == den * ( (IF Completed(sec) THEN weights.security ELSE 0)
                             + (IF Completed(perf) THEN weights.performance ELSE 0)
                             + (IF Completed(acc) THEN weights.accessibility ELSE 0)
                             + (IF Completed(e2e) THEN weights.e2e ELSE 0)
                             + (IF Completed(api) THEN weights.api ELSE 0))
    IN  IF totalWeight > 0 THEN roundDiv(totalScore, totalWeight) ELSE 0

----------------------------------------------------------------------------
(* What the target and the page-speed API may answer *)

Timeout == [kind |-> "error", error |-> "The signal has been aborted"]

E2EPages ==
    [kind : {"http"}, status : HttpStatuses, buttons : SeqsUpTo(ButtonTexts, MaxCount + 1),
     links : 0..MaxCount, forms : 0..MaxCount, unquotedLinks : {0},
     areaLinks : {0}, commentedForms : {0}]

\* pages that also have <a href=...> without quotes, <area href="...">, or a
\* <form> inside a comment
MarkupPages ==
    [kind : {"http"}, status : HttpStatuses, buttons : {<<>>, <<"Buy">>},
     links : 0..MaxCount, forms : 0..MaxCount, unquotedLinks : {0, 1},
     areaLinks : {0, 1}, commentedForms : {0, 1}]

\* pages whose links are all <a href="..."> and that have no form in a comment
PlainMarkup(p) == p.unquotedLinks = 0 /\ p.areaLinks = 0 /\ p.commentedForms = 0

APIPages == [kind : {"http"}, calls : SeqsUpTo(CallLiterals, MaxCount + 1)]

PageSpeedReplies ==
    [kind : {"pagespeed"}, ok : BOOLEAN, performance : PageSpeedScores, seo : {900},
     observedLoad : {1200}]

BasicPages ==
    [kind : {"http"}, loadTime : LoadTimes, imageCount : {0, 21}, scriptCount : {0, 16},
     stylesheetCount : {0, 6}, hasGzip : BOOLEAN, hasCaching : BOOLEAN]

\* one page that passes every check of every analyzer and one that fails them
GoodSecurityPage ==
    [kind |-> "http", hsts |-> TRUE, xcto |-> TRUE, xfo |-> TRUE, csp |-> TRUE, xxss |-> TRUE,
     cookieWrite |-> FALSE]
BadSecurityPage ==
    [kind |-> "http", hsts |-> FALSE, xcto |-> FALSE, xfo |-> FALSE, csp |-> FALSE,
     xxss |-> FALSE, cookieWrite |-> TRUE]
GoodAccessibilityPage ==
    [kind |-> "http", imgWithoutAlt |-> 0, hasLang |-> TRUE, buttonWithoutText |-> 0,
     inputCount |-> 0, labelCount |-> 0, h1Count |-> 1, otherHeadings |-> 0,
     linksWithoutText |-> 0, hasSkipLink |-> TRUE, tabindexNegative |-> 0]
BadAccessibilityPage ==
    [kind |-> "http", imgWithoutAlt |-> MaxImg, hasLang |-> FALSE, buttonWithoutText |-> MaxCount,
     inputCount |-> MaxInputs, labelCount |-> 0, h1Count |-> MaxH1, otherHeadings |-> 0,
     linksWithoutText |-> MaxCount, hasSkipLink |-> FALSE, tabindexNegative |-> MaxCount]
GoodBasicPage ==
    [kind |-> "http", loadTime |-> 800, imageCount |-> 0, scriptCount |-> 0,
     stylesheetCount |-> 0, hasGzip |-> TRUE, hasCaching |-> TRUE]
BadBasicPage ==
    [kind |-> "http", loadTime |-> 3500, imageCount |-> 21, scriptCount |-> 16,
     stylesheetCount |-> 6, hasGzip |-> FALSE, hasCaching |-> FALSE]
PlainTechPage ==
    [kind |-> "http", next |-> FALSE, react |-> FALSE, nuxt |-> FALSE, vue |-> FALSE,
     angular |-> FALSE, wordpress |-> FALSE, drupal |-> FALSE, svelte |-> FALSE,
     jquery |-> FALSE, tailwindWord |-> FALSE, utilityClass |-> FALSE,
     bootstrapClass |-> FALSE, poweredBy |-> NoValue, server |-> NoValue, aspnet |-> FALSE]
NextTechPage ==
    [PlainTechPage EXCEPT !.next = TRUE, !.react = TRUE, !.utilityClass = TRUE,
                          !.server = "nginx/1.25"]

----------------------------------------------------------------------------
(* performScan as processScan sees it: the six slots for the given replies *)

performPerformanceScan(e, pagespeed, basic) ==
    IF e.pagespeedApiKey /\ pagespeed.kind = "pagespeed" /\ pagespeed.ok
    THEN performGooglePageSpeedScan(pagespeed)
    ELSE IF basic.kind = "error" THEN performanceFailed(basic)
    ELSE performBasicPerformanceScan(basic)

performScan(u, e, t) ==
    [e2e |-> performE2EScan(t.e2e, e.domParser),
     api |-> performAPIScan(t.api),
     security |-> performSecurityScan(u, t.security),
     performance |-> performPerformanceScan(e, t.pagespeed, t.basic),
     accessibility |-> performAccessibilityScan(t.accessibility),
     techStack |-> detectTechStack(t.techStack)]

\* a target that answers every analyzer and one that answers none
HealthyTarget ==
    [e2e |-> [kind |-> "http", status |-> 200, buttons |-> <<"Buy">>, links |-> 1, forms |-> 1,
             unquotedLinks |-> 0, areaLinks |-> 0, commentedForms |-> 0],
     api |-> [kind |-> "http", calls |-> <<"/api/users">>],
     security |-> GoodSecurityPage,
     pagespeed |-> [kind |-> "pagespeed", ok |-> TRUE, performance |-> 495, seo |-> 900,
                    observedLoad |-> 1200],
     basic |-> GoodBasicPage,
     accessibility |-> GoodAccessibilityPage, techStack |-> NextTechPage]
DownTarget ==
    [e2e |-> Timeout, api |-> Timeout, security |-> Timeout, pagespeed |-> Timeout,
     basic |-> Timeout, accessibility |-> Timeout, techStack |-> Timeout]

Targets == {HealthyTarget, DownTarget}

----------------------------------------------------------------------------
(* The service: scans, the store, the clock *)

MaxScans == 7       \* scan requests over a run
MaxOverlap == 3     \* of which the first few may arrive while another scan is in flight
MaxTime == 2        \* last tick of the clock

Hour == 2           \* 60 * 60 * 1000 ms, in ticks of half an hour
Limit == 5          \* scans of a host per window

\* two processScan invocations may be in flight together
Scans == {1, 2}

Hosts == {"a.test"}

NoHost == "invalid"

\* body.url of a request: an absolute URL of a host, or text that new URL() rejects
RequestUrls == {[https |-> TRUE, host |-> h] : h \in Hosts \cup {NoHost}}

\* the edge runtime has no DOMParser; whether rate_limits.domain carries a
\* unique constraint is not told by the sources
ServiceEnvs ==
    [domParser : {FALSE}, pagespeedApiKey : {TRUE}, geminiKey : {TRUE}, uniqueDomain : BOOLEAN]

NoRow == [domain |-> NoHost]

NoLocals == [url |-> [https |-> TRUE, host |-> NoHost], rateLimit |-> NoRow]

NoScanRow == [scan_status |-> "none"]

NoReply == [status |-> 0]

NotObserved == [cause |-> "none", fetched |-> FALSE, ai |-> "none"]

ServiceIdle ==
    /\ now = 0
    /\ pc = [s \in Scans |-> "idle"]
    /\ locals = [s \in Scans |-> NoLocals]
    /\ rate_limits = <<>>
    /\ scan_results = [s \in Scans |-> NoScanRow]
    /\ answered = [s \in Scans |-> NoReply]
    /\ started = 0
    /\ admitted = [h \in Hosts |-> <<>>]
    /\ observed = [s \in Scans |-> NotObserved]

----------------------------------------------------------------------------
(* performScan, one analyzer at a time *)

NoneAssigned == [a \in AnalyzerNames |-> 0]

NoResponse == [kind |-> "none"]

Envs == [domParser : BOOLEAN, pagespeedApiKey : BOOLEAN]

Assign(a, r) ==
    /\ results' = [results EXCEPT ![a] = r]
    /\ assigned' = [assigned EXCEPT ![a] = @ + 1]

\* the scan under study is about to run `at`
ScanAt(at) ==
    /\ url \in Urls
    /\ env \in Envs
    /\ response = NoResponse
    /\ results = PendingResults
    /\ assigned = NoneAssigned
    /\ step = at
    /\ topIssues = <<>>
    /\ overallScore = Unset
    /\ fetches = <<>>
    /\ ServiceIdle

\* results.e2e = await performE2EScan(url)
E2EScan(replies) ==
    /\ step = "e2e"
    /\ \E r \in replies :
        /\ response' = r
        /\ Assign("e2e", performE2EScan(r, env.domParser))
    /\ step' = "api"
    /\ fetches' = Append(fetches, "e2e")
    /\ UNCHANGED <<url, env, topIssues, overallScore>>
    /\ UNCHANGED serviceVars

\* the api analyzer reusing the e2e analyzer's fetch: it fails when that failed
APIScanSharedFetch(replies) ==
    /\ step = "api"
    /\ \E r \in replies :
        /\ response' = r
        /\ Assign("api", performAPIScan(IF results.e2e.status = "failed" THEN Timeout ELSE r))
    /\ step' = "security"
    /\ fetches' = Append(fetches, "api")
    /\ UNCHANGED <<url, env, topIssues, overallScore>>
    /\ UNCHANGED serviceVars

\* results.api = await performAPIScan(url)
APIScan(replies) ==
    /\ step = "api"
    /\ \E r \in replies :
        /\ response' = r
        /\ Assign("api", performAPIScan(r))
    /\ step' = "security"
    /\ fetches' = Append(fetches, "api")
    /\ UNCHANGED <<url, env, topIssues, overallScore>>
    /\ UNCHANGED serviceVars

\* the security analyzer started without awaiting the api analyzer
SecurityScanUnawaited(replies) ==
    /\ step \in {"api", "security"}
    /\ \E r \in replies :
        /\ response' = r
        /\ Assign("security", performSecurityScan(url, r))
    /\ step' = "performance"
    /\ fetches' = Append(fetches, "security")
    /\ UNCHANGED <<url, env, topIssues, overallScore>>
    /\ UNCHANGED serviceVars

\* results.security = await performSecurityScan(url)
SecurityScan(replies) ==
    /\ step = "security"
    /\ \E r \in replies :
        /\ response' = r
        /\ Assign("security", performSecurityScan(url, r))
    /\ step' = "performance"
    /\ fetches' = Append(fetches, "security")
    /\ UNCHANGED <<url, env, topIssues, overallScore>>
    /\ UNCHANGED serviceVars

\* results.performance = await performPerformanceScan(url), with a key: the
\* page-speed call answers, or fails and leaves the basic scan to run
PageSpeedScan(replies) ==
    /\ step = "performance"
    /\ env.pagespeedApiKey
    /\ \E r \in replies :
        /\ response' = r
        /\ IF r.kind = "pagespeed" /\ r.ok
           THEN Assign("performance", performGooglePageSpeedScan(r)) /\ step' = "accessibility"
           ELSE UNCHANGED <<results, assigned>> /\ step' = "basic"
    /\ fetches' = Append(fetches, "pagespeed")
    /\ UNCHANGED <<url, env, topIssues, overallScore>>
    /\ UNCHANGED serviceVars

\* performBasicPerformanceScan, called without a key or after the page-speed
\* call failed; what it throws is caught by performPerformanceScan
BasicPerformanceScan(replies) ==
    /\ \/ step = "performance" /\ ~env.pagespeedApiKey
       \/ step = "basic"
    /\ \E r \in replies :
        /\ response' = r
        /\ Assign("performance", IF r.kind = "error" THEN performanceFailed(r)
                                 ELSE performBasicPerformanceScan(r))
    /\ step' = "accessibility"
    /\ fetches' = Append(fetches, "basic")
    /\ UNCHANGED <<url, env, topIssues, overallScore>>
    /\ UNCHANGED serviceVars

\* results.accessibility = await performAccessibilityScan(url)
AccessibilityScan(replies) ==
    /\ step = "accessibility"
    /\ \E r \in replies :
        /\ response' = r
        /\ Assign("accessibility", performAccessibilityScan(r))
    /\ step' = "techStack"
    /\ fetches' = Append(fetches, "accessibility")
    /\ UNCHANGED <<url, env, topIssues, overallScore>>
    /\ UNCHANGED serviceVars

\* results.techStack = await detectTechStack(url); return results
TechStackScan(replies) ==
    /\ step = "techStack"
    /\ \E r \in replies :
        /\ response' = r
        /\ Assign("techStack", detectTechStack(r))
    /\ step' = "returned"
    /\ fetches' = Append(fetches, "techStack")
    /\ UNCHANGED <<url, env, topIssues, overallScore>>
    /\ UNCHANGED serviceVars

\* const topIssues = extractTopIssues(scanResults);
\* const overallScore = calculateOverallScore(scanResults);
Aggregate ==
    /\ step = "returned"
    /\ topIssues' = extractTopIssues(results)
    /\ overallScore' = calculateOverallScore(results)
    /\ step' = "aggregated"
    /\ UNCHANGED <<url, env, response, results, assigned, fetches>>
    /\ UNCHANGED serviceVars

----------------------------------------------------------------------------
(* SpecScan: one run of performScan followed by the two aggregations *)

InitScan == ScanAt("e2e")

\* what the target and the page-speed API answer the analyzers of the scan
E2EReplies ==
    {p \in E2EPages : p.links = 0 /\ p.forms = 0 /\ p.status # 500 /\ PlainMarkup(p)} \cup {Timeout}

APIReplies == {p \in APIPages : Len(p.calls) # 1} \cup {Timeout}

SecurityReplies == {GoodSecurityPage, BadSecurityPage, Timeout}

PageSpeedScanReplies == {r \in PageSpeedReplies : r.performance # 0} \cup {Timeout}

BasicReplies == {GoodBasicPage, BadBasicPage, Timeout}

AccessibilityReplies == {GoodAccessibilityPage, BadAccessibilityPage, Timeout}

TechStackReplies == {PlainTechPage, NextTechPage, Timeout}

NextScan ==
    \/ E2EScan(E2EReplies)
    \/ APIScan(APIReplies)
    \/ SecurityScan(SecurityReplies)
    \/ PageSpeedScan(PageSpeedScanReplies)
    \/ BasicPerformanceScan(BasicReplies)
    \/ AccessibilityScan(AccessibilityReplies)
    \/ TechStackScan(TechStackReplies)
    \/ Aggregate

SpecScan == InitScan /\ [][NextScan]_vars

----------------------------------------------------------------------------
(* SpecSecurity, SpecAccessibility: one analyzer over every page of the model *)

InitSecurity == ScanAt("security")

\* every response of the model, and every failure of the fetch
AllSecurityReplies == SecurityPages \cup FetchErrors

NextSecurity == SecurityScan(AllSecurityReplies)

SpecSecurity == InitSecurity /\ [][NextSecurity]_vars

InitAccessibility == ScanAt("accessibility")

AllAccessibilityReplies == AccessibilityPages \cup FetchErrors

NextAccessibility == AccessibilityScan(AllAccessibilityReplies)

SpecAccessibility == InitAccessibility /\ [][NextAccessibility]_vars

\* SpecStatus: performScan against a target whose replies carry an HTTP status,
\* OK or not, in every fetch
WithStatus(p, status) == [status |-> status] @@ p

StatusReplies(replies) ==
    {WithStatus(p, status) : p \in {r \in replies : r.kind = "http"}, status \in HttpStatuses}
        \cup {r \in replies : r.kind # "http"}

StatusAPIReplies == StatusReplies(APIReplies)

StatusSecurityReplies == StatusReplies(SecurityReplies)

StatusBasicReplies == StatusReplies(BasicReplies)

StatusAccessibilityReplies == StatusReplies(AccessibilityReplies)

StatusTechStackReplies == StatusReplies(TechStackReplies)

NextStatus ==
    \/ E2EScan(E2EReplies)
    \/ APIScan(StatusAPIReplies)
    \/ SecurityScan(StatusSecurityReplies)
    \/ PageSpeedScan(PageSpeedScanReplies)
    \/ BasicPerformanceScan(StatusBasicReplies)
    \/ AccessibilityScan(StatusAccessibilityReplies)
    \/ TechStackScan(StatusTechStackReplies)

SpecStatus == InitScan /\ [][NextStatus]_vars

\* SpecE2E: performE2EScan over every reply of the model, with and without a
\* DOMParser in the runtime
InitE2E == ScanAt("e2e")

AllE2EReplies == E2EPages \cup MarkupPages \cup FetchErrors

NextE2E == E2EScan(AllE2EReplies)

SpecE2E == InitE2E /\ [][NextE2E]_vars

\* SpecPrimaryActions: performE2EScan over pages with more buttons than the
\* five primary_actions keeps, with and without a DOMParser in the runtime
ManyButtonPages ==
    [kind : {"http"}, status : {200}, buttons : SeqsUpTo(ButtonTexts, MaxButtons),
     links : {0}, forms : {0}, unquotedLinks : {0}, areaLinks : {0}, commentedForms : {0}]

NextPrimaryActions == E2EScan(ManyButtonPages)

SpecPrimaryActions == InitE2E /\ [][NextPrimaryActions]_vars

\* SpecAPI: performAPIScan over pages with up to MaxCalls call sites, written
\* in one of the three idioms the pattern accepts
CallIdioms == {"fetch", "axios.post", "$.ajax"}

ManyCallLiterals == CallLiterals \cup SlashPaths

\* "/api/users" repeated, with any literal in one place
RepeatedCalls ==
    {[i \in 1..n |-> IF i = k THEN x ELSE "/api/users"] :
        n \in 0..MaxCalls, k \in 1..MaxCalls, x \in ManyCallLiterals}

ManyCallPages ==
    [kind : {"http"}, idiom : CallIdioms,
     calls : RepeatedCalls \cup SeqsUpTo(ManyCallLiterals, MaxCount + 2)]

AllAPIReplies == ManyCallPages \cup FetchErrors

InitAPI == ScanAt("api")

NextAPI == APIScan(AllAPIReplies)

SpecAPI == InitAPI /\ [][NextAPI]_vars

\* SpecBasicScore: performBasicPerformanceScan over pages at, below and above
\* each threshold of the score
ThresholdBasicPages ==
    [kind : {"http"}, loadTime : {800, 1500, 1501, 3000, 3001}, imageCount : {0, 20, 21},
     scriptCount : {0, 15, 16}, stylesheetCount : {0, 5, 6}, hasGzip : BOOLEAN,
     hasCaching : BOOLEAN]

InitBasicScore == ScanAt("performance") /\ ~env.pagespeedApiKey

NextBasicScore == BasicPerformanceScan(ThresholdBasicPages)

SpecBasicScore == InitBasicScore /\ [][NextBasicScore]_vars

\* SpecTechStack: detectTechStack over every page of the model, run a second
\* time over the same body and headers
InitTechStack == ScanAt("techStack") /\ url.https /\ ~env.domParser /\ env.pagespeedApiKey

AllTechStackReplies == TechPages \cup FetchErrors

\* detectTechStack once more, answered what it was answered the first time
TechStackRescan ==
    /\ step = "returned"
    /\ Assign("techStack", detectTechStack(response))
    /\ step' = "rescanned"
    /\ fetches' = Append(fetches, "techStack")
    /\ UNCHANGED <<url, env, response, topIssues, overallScore>>
    /\ UNCHANGED serviceVars

NextTechStack ==
    \/ TechStackScan(AllTechStackReplies)
    \/ TechStackRescan

SpecTechStack == InitTechStack /\ [][NextTechStack]_vars

\* SpecPerformance: performPerformanceScan over every reply of the page-speed
\* API and every page of the model
InitPerformance == ScanAt("performance")

AllPageSpeedReplies == PageSpeedReplies \cup FetchErrors

AllBasicReplies == BasicPages \cup FetchErrors

NextPerformance ==
    \/ PageSpeedScan(AllPageSpeedReplies)
    \/ BasicPerformanceScan(AllBasicReplies)

SpecPerformance == InitPerformance /\ [][NextPerformance]_vars

----------------------------------------------------------------------------
(* SpecTopIssues, SpecScore: the aggregations over what performScan returns *)

HttpsUrl == [https |-> TRUE, host |-> "a.test"]

\* every slot assigned once
AllAssigned == [a \in AnalyzerNames |-> 1]

\* what performPerformanceScan returns for the given replies of the
\* page-speed API and of the target
PerformanceOutcomes(replies, pages) ==
         {performGooglePageSpeedScan(r) : r \in {x \in replies : x.ok}}
    \cup {performBasicPerformanceScan(r) : r \in pages}
    \cup {performanceFailed(Timeout)}

\* the fetches behind a returned result: one per analyzer, the performance
\* analyzer's being the page-speed call, the basic scan's, or both
fetchesOf(e, scanResults) ==
    <<"e2e", "api", "security">>
    \o (IF e.pagespeedApiKey THEN <<"pagespeed">> ELSE <<>>)
    \o (IF HasField(scanResults.performance, "source")
           /\ scanResults.performance.source = "google-pagespeed"
        THEN <<>> ELSE <<"basic">>)
    \o <<"accessibility", "techStack">>

\* performScan has returned one of `outcomes`
Returned(outcomes) ==
    /\ url = HttpsUrl
    /\ env = [domParser |-> FALSE, pagespeedApiKey |-> TRUE]
    /\ response = NoResponse
    /\ results \in outcomes
    /\ assigned = AllAssigned
    /\ step = "returned"
    /\ topIssues = <<>>
    /\ overallScore = Unset
    /\ fetches = fetchesOf(env, results)
    /\ ServiceIdle

\* accessibility pages on which each check either does not fire or fires on
\* the most matches the model allows
ExtremeAccessibilityPages ==
    {p \in AccessibilityPages :
        /\ p.imgWithoutAlt \in {0, MaxImg}
        /\ p.inputCount \in {0, MaxInputs}
        /\ p.labelCount = 0
        /\ p.h1Count \in {1, MaxH1}
        /\ p.otherHeadings = 0}

TopIssuesOutcomes ==
    {[e2e |-> performE2EScan(Timeout, FALSE),
      api |-> performAPIScan(Timeout),
      security |-> performSecurityScan(HttpsUrl, s),
      performance |-> p,
      accessibility |-> performAccessibilityScan(a),
      techStack |-> detectTechStack(PlainTechPage)] :
        s \in SecurityPages \cup {Timeout},
        p \in PerformanceOutcomes({r \in PageSpeedReplies : r.performance = 495},
                                  {GoodBasicPage, BadBasicPage}),
        a \in {x \in ExtremeAccessibilityPages : x.linksWithoutText = 0 /\ x.tabindexNegative = 0}
                \cup {BadAccessibilityPage, Timeout}}

InitTopIssues == Returned(TopIssuesOutcomes)

SpecTopIssues == InitTopIssues /\ [][Aggregate]_vars

ScoreOutcomes ==
    {[e2e |-> performE2EScan(e, FALSE),
      api |-> performAPIScan(c),
      security |-> performSecurityScan(HttpsUrl, s),
      performance |-> p,
      accessibility |-> performAccessibilityScan(a),
      techStack |-> detectTechStack(PlainTechPage)] :
        e \in {x \in E2EPages : x.status = 200 /\ x.links = 0 /\ x.forms = 0 /\ Len(x.buttons) < 2
                                   /\ PlainMarkup(x)}
                \cup {Timeout},
        c \in {x \in APIPages : x.calls = <<>>} \cup {Timeout},
        s \in SecurityPages \cup {Timeout},
        p \in PerformanceOutcomes(PageSpeedReplies,
                {x \in BasicPages : /\ x.imageCount = 0 /\ x.scriptCount = 0
                                    /\ x.stylesheetCount = 0 /\ x.hasCaching}),
        a \in {x \in ExtremeAccessibilityPages :
                    x.buttonWithoutText = 0 /\ x.inputCount = 0 /\ x.linksWithoutText = 0 /\ x.h1Count = 1}
                \cup {BadAccessibilityPage, Timeout}}

InitScore == Returned(ScoreOutcomes)

SpecScore == InitScore /\ [][Aggregate]_vars

----------------------------------------------------------------------------
(* Spec: the handler and processScan over the store *)

SetPc(s, at) == pc' = [pc EXCEPT ![s] = at]

SetStatus(s, status) == scan_results' = [scan_results EXCEPT ![s].scan_status = status]

hostname(u) == u.host

\* Deno.serve handler. The caller has inserted the scan's row as 'pending';
\* processScan is started and not awaited, the caller is answered at once.
Request(s, u) ==
    /\ pc[s] \in {"idle", "done"}
    /\ \A r \in Scans : r < s => pc[r] \notin {"idle", "done"}
    /\ started < (IF \E r \in Scans : pc[r] \notin {"idle", "done"} THEN MaxOverlap ELSE MaxScans)
    /\ started' = started + 1
    /\ scan_results' = [scan_results EXCEPT ![s] = [scan_status |-> "pending"]]
    /\ answered' = [answered EXCEPT ![s] = [status |-> 200, message |-> "Scan started"]]
    /\ locals' = [locals EXCEPT ![s] = [NoLocals EXCEPT !.url = u]]
    /\ observed' = [observed EXCEPT ![s] = NotObserved]
    /\ SetPc(s, "started")
    /\ UNCHANGED <<now, rate_limits, admitted>>
    /\ UNCHANGED scanVars

\* .select("*").eq("domain", domain).maybeSingle(): the row when exactly one matches
maybeSingle(domain) ==
    LET rows == SelectSeq(rate_limits, LAMBDA r : r.domain = domain)
    IN  IF Len(rows) = 1 THEN rows[1] ELSE NoRow

\* off by one: a sixth scan passes
limitExceededLate(rateLimit, t) ==
    rateLimit.window_start > t - Hour /\ rateLimit.scan_count > Limit

\* new Date(rateLimit.window_start) > hourAgo && rateLimit.scan_count >= 5
limitExceeded(rateLimit, t) ==
    rateLimit.window_start > t - Hour /\ rateLimit.scan_count >= Limit

\* processScan up to the rate-limit test: update({ scan_status: "processing" }),
\* new URL(url).hostname (which throws on text that is no URL), the select of
\* the host's rate-limit row and the test of it
StartProcessing(s) ==
    /\ pc[s] = "started"
    /\ SetStatus(s, "processing")
    /\ LET domain == hostname(locals[s].url)
           rateLimit == maybeSingle(domain)
       IN  IF domain = NoHost
           THEN SetPc(s, "catch") /\ UNCHANGED <<locals, admitted>>
           ELSE /\ locals' = [locals EXCEPT ![s].rateLimit = rateLimit]
                /\ IF rateLimit # NoRow /\ limitExceeded(rateLimit, now)
                   THEN SetPc(s, "reject") /\ UNCHANGED admitted
                   ELSE /\ SetPc(s, IF rateLimit # NoRow THEN "update" ELSE "insert")
                        /\ admitted' = [admitted EXCEPT ![domain] = Append(@, now)]
    /\ UNCHANGED <<now, rate_limits, answered, started, observed>>
    /\ UNCHANGED scanVars

\* the rate-limited branch: update({ scan_status: "failed" }) and a 429
\* Response returned to the handler, which dropped the promise
RejectScan(s) ==
    /\ pc[s] = "reject"
    /\ SetStatus(s, "failed")
    /\ observed' = [observed EXCEPT ![s].cause = "rate-limit"]
    /\ SetPc(s, "done")
    /\ locals' = [locals EXCEPT ![s] = NoLocals]
    /\ UNCHANGED <<now, rate_limits, answered, started, admitted>>
    /\ UNCHANGED scanVars

\* update({ scan_count: rateLimit.scan_count + 1, last_scan_at }).eq("domain", domain);
\* last_scan_at is written and never read, the rows of the model omit it
UpdateRateLimit(s) ==
    /\ pc[s] = "update"
    /\ rate_limits' =
        [i \in 1..Len(rate_limits) |->
            IF rate_limits[i].domain = hostname(locals[s].url)
            THEN [rate_limits[i] EXCEPT !.scan_count = locals[s].rateLimit.scan_count + 1]
            ELSE rate_limits[i]]
    /\ SetPc(s, "scan")
    /\ UNCHANGED <<now, locals, scan_results, answered, started, admitted, observed>>
    /\ UNCHANGED scanVars

\* insert({ domain, scan_count: 1, window_start, last_scan_at }); under a unique
\* constraint a second row of the domain is refused and the error is ignored
InsertRateLimit(s) ==
    /\ pc[s] = "insert"
    /\ LET domain == hostname(locals[s].url)
       IN  IF env.uniqueDomain /\ \E i \in 1..Len(rate_limits) : rate_limits[i].domain = domain
           THEN UNCHANGED rate_limits
           ELSE rate_limits' = Append(rate_limits,
                    [domain |-> domain, scan_count |-> 1, window_start |-> now])
    /\ SetPc(s, "scan")
    /\ UNCHANGED <<now, locals, scan_results, answered, started, admitted, observed>>
    /\ UNCHANGED scanVars

\* the summary generateAIAnalysis may return: null without GEMINI_API_KEY or
\* when the call fails
\* JavaScript's null
Null == "null"

\* what the text-completion service answers: the request throws, or an HTTP
\* reply that is ok or not and whose first candidate holds no text, JSON with
\* or without a summary, or text that is not JSON
AIReplies ==
    {[kind |-> "error", error |-> "network error"]}
    \cup [kind : {"http"}, ok : BOOLEAN, content : {"none", "json", "json-no-summary", "text"}]

NoAnalysis == [summary |-> Null, recommendations |-> <<>>]

\* the text of a failed request taken for the summary
generateAIAnalysisErrorText(geminiKey, r) ==
    IF ~geminiKey THEN NoAnalysis
    ELSE IF r.kind = "error" THEN [summary |-> r.error, recommendations |-> <<>>]
    ELSE IF ~r.ok THEN [summary |-> "HTTP error", recommendations |-> <<>>]
    ELSE IF r.content = "none" THEN NoAnalysis
    ELSE IF r.content = "json"
    THEN [summary |-> "parsed summary", recommendations |-> <<"parsed recommendation">>]
    ELSE IF r.content = "json-no-summary" THEN NoAnalysis
    ELSE [summary |-> "raw content", recommendations |-> <<>>]

generateAIAnalysis(geminiKey, r) ==
    IF ~geminiKey THEN NoAnalysis
    ELSE IF r.kind = "error" THEN NoAnalysis
    ELSE IF ~r.ok THEN NoAnalysis
    ELSE IF r.content = "none" THEN NoAnalysis
    ELSE IF r.content = "json"
    THEN [summary |-> "parsed summary", recommendations |-> <<"parsed recommendation">>]
    ELSE IF r.content = "json-no-summary" THEN NoAnalysis
    ELSE [summary |-> "raw content", recommendations |-> <<>>]

\* how the summarization went: not attempted without a key, failed when the
\* request threw or was answered with an error status, answered otherwise
aiOutcome(geminiKey, r) ==
    IF ~geminiKey THEN "skipped"
    ELSE IF r.kind = "error" \/ ~r.ok THEN "failed"
    ELSE "answered"

\* the final update marking a scan without a summary as failed
completedRowIfSummarized(scanResults, aiAnalysis) ==
    [scan_status |-> IF aiAnalysis.summary = Null THEN "failed" ELSE "completed",
     overall_score |-> calculateOverallScore(scanResults),
     results |-> scanResults,
     top_issues |-> extractTopIssues(scanResults),
     ai_summary |-> aiAnalysis.summary,
     ai_recommendations |-> aiAnalysis.recommendations]

\* the row written by the final update, with the flattened fields computed
\* from the slots: x || y takes y when x is undefined or 0
completedRow(scanResults, aiAnalysis) ==
    LET perf == scanResults.performance
        lighthouse == IF HasField(perf, "lighthouse_scores") THEN perf.lighthouse_scores
                      ELSE [performance |-> 0, seo |-> 0]
        detected == scanResults.techStack.detected
        endpoints == scanResults.api.endpoints
    IN  [scan_status |-> "completed",
         overall_score |-> calculateOverallScore(scanResults),
         results |-> scanResults,
         top_issues |-> extractTopIssues(scanResults),
         ai_summary |-> aiAnalysis.summary,
         ai_recommendations |-> aiAnalysis.recommendations,
         performance_score |-> IF perf.score # 0 THEN perf.score ELSE lighthouse.performance,
         seo_score |-> lighthouse.seo,
         accessibility_issue_count |-> scanResults.accessibility.total_issues,
         security_checks_passed |-> Max(0, 7 - Len(scanResults.security.issues)),
         security_checks_total |-> 7,
         technologies |-> [i \in 1..Len(detected) |-> detected[i].name],
         exposed_endpoints |-> [i \in 1..Len(endpoints) |-> endpoints[i].path]]

\* the rest of the try block: performScan(url), extractTopIssues,
\* calculateOverallScore, generateAIAnalysis and the final update, accepted
\* by the store
SaveCompleted(s, replies) ==
    /\ pc[s] = "scan"
    /\ locals' = [locals EXCEPT ![s] = NoLocals]
    /\ \E t \in Targets, r \in replies :
        /\ scan_results' = [scan_results EXCEPT ![s] =
                completedRow(performScan(locals[s].url, env, t),
                             generateAIAnalysis(env.geminiKey, r))]
        /\ observed' = [observed EXCEPT ![s] =
                [cause |-> "completed", fetched |-> TRUE,
                 ai |-> aiOutcome(env.geminiKey, r)]]
    /\ SetPc(s, "done")
    /\ UNCHANGED <<now, rate_limits, answered, started, admitted>>
    /\ UNCHANGED scanVars

\* the final update applied and yet reported as refused
SaveRefusedApplied(s) ==
    /\ pc[s] = "scan"
    /\ locals' = [locals EXCEPT ![s] = NoLocals]
    /\ scan_results' = [scan_results EXCEPT ![s] =
            completedRow(performScan(locals[s].url, env, DownTarget), NoAnalysis)]
    /\ observed' = [observed EXCEPT ![s] =
            [cause |-> "update-error", fetched |-> TRUE, ai |-> "none"]]
    /\ SetPc(s, "catch")
    /\ UNCHANGED <<now, rate_limits, answered, started, admitted>>
    /\ UNCHANGED scanVars

\* the same with the final update refused: its updateError is thrown into
\* the catch
SaveRefused(s) ==
    /\ pc[s] = "scan"
    /\ locals' = [locals EXCEPT ![s] = NoLocals]
    /\ observed' = [observed EXCEPT ![s] =
            [cause |-> "update-error", fetched |-> TRUE, ai |-> "none"]]
    /\ SetPc(s, "catch")
    /\ UNCHANGED <<now, rate_limits, scan_results, answered, started, admitted>>
    /\ UNCHANGED scanVars

SaveScan(s, replies) == SaveCompleted(s, replies) \/ SaveRefused(s)

\* the text-completion service as the service specification has it: down, or
\* answering with a summary
ServiceAIReplies ==
    {[kind |-> "error", error |-> "network error"],
     [kind |-> "http", ok |-> TRUE, content |-> "json"]}

ScanAndSave(s) == SaveScan(s, ServiceAIReplies)

\* catch (error): update({ scan_status: "failed" })
MarkFailed(s) ==
    /\ pc[s] = "catch"
    /\ SetStatus(s, "failed")
    /\ observed' = [observed EXCEPT ![s].cause = IF @ = "none" THEN "error" ELSE @]
    /\ SetPc(s, "done")
    /\ locals' = [locals EXCEPT ![s] = NoLocals]
    /\ UNCHANGED <<now, rate_limits, answered, started, admitted>>
    /\ UNCHANGED scanVars

\* half an hour passes
Tick ==
    /\ now < MaxTime
    /\ now' = now + 1
    /\ UNCHANGED <<pc, locals, rate_limits, scan_results, answered, started, admitted, observed>>
    /\ UNCHANGED scanVars

Init ==
    /\ url = HttpsUrl
    /\ env \in ServiceEnvs
    /\ response = NoResponse
    /\ results = PendingResults
    /\ assigned = NoneAssigned
    /\ step = "unused"
    /\ topIssues = <<>>
    /\ overallScore = Unset
    /\ fetches = <<>>
    /\ ServiceIdle

Next ==
    \/ \E s \in Scans, u \in RequestUrls : Request(s, u)
    \/ \E s \in Scans : StartProcessing(s)
    \/ \E s \in Scans : RejectScan(s)
    \/ \E s \in Scans : UpdateRateLimit(s)
    \/ \E s \in Scans : InsertRateLimit(s)
    \/ \E s \in Scans : ScanAndSave(s)
    \/ \E s \in Scans : MarkFailed(s)
    \/ Tick

Spec == Init /\ [][Next]_vars

\* the service with one processScan invocation at a time
NextSequential ==
    \/ \E u \in RequestUrls : Request(1, u)
    \/ StartProcessing(1)
    \/ RejectScan(1)
    \/ UpdateRateLimit(1)
    \/ InsertRateLimit(1)
    \/ ScanAndSave(1)
    \/ MarkFailed(1)
    \/ Tick

SpecSequential == Init /\ [][NextSequential]_vars

\* SpecSummarization: one processScan invocation at a time, with and without
\* GEMINI_API_KEY, over every answer of the text-completion service
SummarizationEnvs ==
    [domParser : {FALSE}, pagespeedApiKey : {TRUE}, geminiKey : BOOLEAN, uniqueDomain : {TRUE}]

InitSummarization ==
    /\ url = HttpsUrl
    /\ env \in SummarizationEnvs
    /\ response = NoResponse
    /\ results = PendingResults
    /\ assigned = NoneAssigned
    /\ step = "unused"
    /\ topIssues = <<>>
    /\ overallScore = Unset
    /\ fetches = <<>>
    /\ ServiceIdle

NextSummarization ==
    \/ \E u \in RequestUrls : Request(1, u)
    \/ StartProcessing(1)
    \/ RejectScan(1)
    \/ UpdateRateLimit(1)
    \/ InsertRateLimit(1)
    \/ SaveScan(1, AIReplies)
    \/ MarkFailed(1)
    \/ Tick

SpecSummarization == InitSummarization /\ [][NextSummarization]_vars

\* SpecEventually: one processScan invocation at a time over a store that
\* accepts every write; the runtime keeps running an invocation it has started
NextEventually ==
    \/ \E u \in RequestUrls : Request(1, u)
    \/ StartProcessing(1)
    \/ RejectScan(1)
    \/ UpdateRateLimit(1)
    \/ InsertRateLimit(1)
    \/ SaveCompleted(1, AIReplies)
    \/ MarkFailed(1)
    \/ Tick

SpecEventually ==
    /\ InitSummarization
    /\ [][NextEventually]_vars
    /\ WF_vars(StartProcessing(1))
    /\ WF_vars(RejectScan(1))
    /\ WF_vars(UpdateRateLimit(1))
    /\ WF_vars(InsertRateLimit(1))
    /\ WF_vars(SaveCompleted(1, AIReplies))
    /\ WF_vars(MarkFailed(1))

----------------------------------------------------------------------------
(* regenerate-ai: the summary of a stored scan generated again *)

\* what the text-completion service answers regenerate-ai: as AIReplies, and
\* JSON whose summary is the empty string
RegenerateReplies ==
    {[kind |-> "error", error |-> "network error"]}
    \cup [kind : {"http"}, ok : BOOLEAN,
          content : {"none", "json", "json-no-summary", "json-empty-summary", "text"}]

\* summary = parsed.summary ?? null, or String(content) when content is not
\* JSON, or null without content
regeneratedSummary(content) ==
    CASE content = "none" -> Null
      [] content = "json" -> "parsed summary"
      [] content = "json-no-summary" -> Null
      [] content = "json-empty-summary" -> ""
      [] content = "text" -> "raw content"

regeneratedRecommendations(content) ==
    IF content \in {"json", "json-empty-summary"} THEN <<"parsed recommendation">> ELSE <<>>

ErrorReply(status, error) == [status |-> status, error |-> error]

\* Deno.serve handler of regenerate-ai for { scanId: s }, whatever the state
\* of the scan
RegenerateAI(s, replies) ==
    /\ IF scan_results[s] = NoScanRow
       THEN /\ answered' = [answered EXCEPT ![s] = ErrorReply(404, "Scan not found")]
            /\ UNCHANGED scan_results
       ELSE IF ~env.geminiKey
       THEN /\ answered' = [answered EXCEPT ![s] = ErrorReply(500, "GEMINI_API_KEY not configured")]
            /\ UNCHANGED scan_results
       ELSE \E r \in replies :
            IF r.kind = "error"
            THEN /\ answered' = [answered EXCEPT ![s] = ErrorReply(500, r.error)]
                 /\ UNCHANGED scan_results
            ELSE IF ~r.ok
            THEN /\ answered' = [answered EXCEPT ![s] = ErrorReply(502, "Gemini API error")]
                 /\ UNCHANGED scan_results
            ELSE LET summary == regeneratedSummary(r.content)
                     recommendations == regeneratedRecommendations(r.content)
                 IN  \/ /\ scan_results' = [scan_results EXCEPT ![s] =
                                [ai_summary |-> summary,
                                 ai_recommendations |-> recommendations] @@ @]
                        /\ answered' = [answered EXCEPT ![s] =
                                [status |-> 200, ai_summary |-> summary,
                                 ai_recommendations |-> recommendations]]
                     \/ /\ answered' = [answered EXCEPT ![s] =
                                ErrorReply(500, "Failed to update scan row")]
                        /\ UNCHANGED scan_results
    /\ UNCHANGED <<now, pc, locals, rate_limits, started, admitted, observed>>
    /\ UNCHANGED scanVars

\* scan 1 has been requested at time 0 and saved as completed, or no scan
\* has been requested yet
InitRegenerate ==
    /\ url = HttpsUrl
    /\ env \in SummarizationEnvs
    /\ response = NoResponse
    /\ results = PendingResults
    /\ assigned = NoneAssigned
    /\ step = "unused"
    /\ topIssues = <<>>
    /\ overallScore = Unset
    /\ fetches = <<>>
    /\ now = 0
    /\ locals = [s \in Scans |-> NoLocals]
    /\ \/ ServiceIdle
       \/ /\ pc = [s \in Scans |-> IF s = 1 THEN "done" ELSE "idle"]
          /\ rate_limits = <<[domain |-> "a.test", scan_count |-> 1, window_start |-> 0]>>
          /\ answered = [s \in Scans |->
                IF s = 1 THEN [status |-> 200, message |-> "Scan started"] ELSE NoReply]
          /\ started = 1
          /\ admitted = [h \in Hosts |-> <<0>>]
          /\ \E t \in Targets, r \in AIReplies :
                /\ scan_results = [s \in Scans |->
                        IF s = 1 THEN completedRow(performScan(HttpsUrl, env, t),
                                                   generateAIAnalysis(env.geminiKey, r))
                        ELSE NoScanRow]
                /\ observed = [s \in Scans |->
                        IF s = 1 THEN [cause |-> "completed", fetched |-> TRUE,
                                       ai |-> aiOutcome(env.geminiKey, r)]
                        ELSE NotObserved]

NextRegenerate == \E s \in Scans : RegenerateAI(s, RegenerateReplies)

SpecRegenerate == InitRegenerate /\ [][NextRegenerate]_vars

\* SpecLifecycle: one scan at a time, with regenerate-ai called for it at any
\* moment
LifecycleReplies ==
    {[kind |-> "error", error |-> "network error"],
     [kind |-> "http", ok |-> TRUE, content |-> "json"],
     [kind |-> "http", ok |-> TRUE, content |-> "none"]}

NextLifecycle ==
    \/ \E u \in RequestUrls : Request(1, u)
    \/ StartProcessing(1)
    \/ RejectScan(1)
    \/ UpdateRateLimit(1)
    \/ InsertRateLimit(1)
    \/ ScanAndSave(1)
    \/ MarkFailed(1)
    \/ Tick
    \/ RegenerateAI(1, LifecycleReplies)

SpecLifecycle == InitSummarization /\ [][NextLifecycle]_vars

----------------------------------------------------------------------------
(* Properties *)

SeverityRank(sev) ==
    CASE sev = "critical" -> 0 [] sev = "high" -> 1 [] sev = "medium" -> 2 [] sev = "low" -> 3

IsCompleted(a) == results[a].status = "completed"

\* the weight of an analyzer in hundredths and its sub-score as a fraction
Weight(a) ==
    CASE a = "security" -> 30 [] a = "performance" -> 25 [] a = "accessibility" -> 25
      [] a = "e2e" -> 10 [] a = "api" -> 10

SubScoreNum(a) ==
    CASE a = "security" -> results.security.checks_passed * 100
      [] a = "performance" -> results.performance.score
      [] a = "accessibility" -> results.accessibility.score
      [] a = "e2e" -> IF results.e2e.buttons_found > 0 THEN 80 ELSE 50
      [] a = "api" -> 70

SubScoreDen(a) == IF a = "security" THEN results.security.checks_performed ELSE 1

Scored == {"security", "performance", "accessibility", "e2e", "api"}

RECURSIVE SumOver(_, _)
SumOver(S, f) ==
    IF S = {} THEN 0
    ELSE LET x == CHOOSE y \in S : TRUE IN f[x] + SumOver(S \ {x}, f)

\* C1: overallScore is an integer of 0..100, the weighted mean of the
\* sub-scores of the Completed analyzers only, rounded to the nearest integer
\* (a tie upwards), and 0 when no analyzer is Completed.
C1_OverallScore ==
    step = "aggregated" =>
        LET done == {a \in Scored : IsCompleted(a)}
            D == IF IsCompleted("security") THEN SubScoreDen("security") ELSE 1
            num == SumOver(done, [a \in done |-> Weight(a) * SubScoreNum(a) * (D \div SubScoreDen(a))])
            den == D * SumOver(done, [a \in done |-> Weight(a)])
        IN  /\ overallScore \in 0..100
            /\ done = {} => overallScore = 0
            /\ done # {} => /\ 2 * overallScore * den <= 2 * num + den
                            /\ 2 * (overallScore + 1) * den > 2 * num + den

C1_Witness ==
    /\ step = "aggregated"
    /\ results.security.status = "completed" /\ results.security.checks_passed = 2
    /\ results.performance.status = "failed"
    /\ results.accessibility.status = "completed"
    /\ results.e2e.status = "failed"
    /\ overallScore = 41

\* C2: topIssues has at most 10 entries and is sorted non-decreasing by the
\* severity rank critical=0, high=1, medium=2, low=3.
C2_TopIssuesSorted ==
    step = "aggregated" =>
        /\ Len(topIssues) <= 10
        /\ \A i, j \in 1..Len(topIssues) :
            i < j => SeverityRank(topIssues[i].severity) <= SeverityRank(topIssues[j].severity)

RowsOf(h) == {i \in 1..Len(rate_limits) : rate_limits[i].domain = h}

WindowOpen(row) == now - row.window_start < Hour

C4_RollingWindow ==
    \A h \in Hosts : \A t \in 0..MaxTime :
        Cardinality({i \in 1..Len(admitted[h]) : t <= admitted[h][i] /\ admitted[h][i] < t + Hour}) <= 5

\* what the caller of a scan gets to see: the handler's answer and the scan's row
Visible(s) == <<answered[s], scan_results[s].scan_status>>

\* C5: a rate-limited scan ends in a 'rejected' outcome that the caller can
\* tell from 'failed'.
C5_RejectedDistinct ==
    \A s \in Scans :
        (pc[s] = "done" /\ observed[s].cause = "rate-limit") =>
            /\ scan_results[s].scan_status # "failed"
            /\ \A r \in Scans :
                (pc[r] = "done" /\ observed[r].cause = "error") => Visible(s) # Visible(r)

\* C6: performScan assigns each of its six slots exactly once, whatever
\* fails, and returns them Completed or Failed, a Failed one with an error.
C6_CompleteResults ==
    /\ \A a \in AnalyzerNames : assigned[a] <= 1
    /\ step \in {"returned", "aggregated"} =>
        \A a \in AnalyzerNames :
            /\ assigned[a] = 1
            /\ results[a].status \in {"completed", "failed"}
            /\ results[a].status = "failed" =>
                ("error" \in DOMAIN results[a] /\ results[a].error # NoError)

C6_Witness ==
    /\ step = "returned"
    /\ \A a \in AnalyzerNames : results[a].status = "failed"

\* C7: a Completed security result has checks_performed = 7 and
\* checks_passed = checks_performed - issues.length.
C7_ChecksPassed ==
    results.security.status = "completed" =>
        /\ results.security.checks_performed = 7
        /\ results.security.checks_passed =
                results.security.checks_performed - Len(results.security.issues)

C7_Witness ==
    /\ results.security.status = "completed"
    /\ Len(results.security.issues) = 6
    /\ results.security.checks_passed = 1

ScenarioB(r) ==
    /\ r.kind = "http"
    /\ ~r.hsts /\ ~r.xcto /\ ~r.xfo /\ ~r.csp /\ ~r.xxss /\ ~r.cookieWrite

\* C8: a response without any of the five headers and without a cookie write
\* yields exactly 5 issues and checks_passed = 2.
C8_ScenarioB ==
    (assigned.security = 1 /\ ScenarioB(response)) =>
        /\ results.security.status = "completed"
        /\ Len(results.security.issues) = 5
        /\ results.security.checks_passed = 2

C8_Witness == assigned.security = 1 /\ ScenarioB(response)

IssuesOf(sev) ==
    {i \in 1..Len(results.accessibility.issues) : results.accessibility.issues[i].severity = sev}

\* C9: a Completed accessibility result has score = max(0, 100 - deductions)
\* with 25 per critical, 15 per high, 8 per medium and 3 per low issue.
C9_AccessibilityScore ==
    results.accessibility.status = "completed" =>
        LET d == 25 * Cardinality(IssuesOf("critical")) + 15 * Cardinality(IssuesOf("high"))
                 + 8 * Cardinality(IssuesOf("medium")) + 3 * Cardinality(IssuesOf("low"))
        IN  /\ Len(results.accessibility.issues) =
                    Cardinality(IssuesOf("critical") \cup IssuesOf("high")
                                \cup IssuesOf("medium") \cup IssuesOf("low"))
            /\ results.accessibility.score = (IF d > 100 THEN 0 ELSE 100 - d)

C9_Witness ==
    /\ results.accessibility.status = "completed"
    /\ Len(results.accessibility.issues) = 8
    /\ results.accessibility.score = 0

ScenarioA(r) == r.kind = "http" /\ r.imgWithoutAlt = 2 /\ ~r.hasLang

ScenarioAIssues ==
    /\ \E i \in IssuesOf("critical") : results.accessibility.issues[i].count = 2
    /\ IssuesOf("high") # {}
    /\ results.accessibility.wcag_level = "Fails Level A"

\* C10 as stated: two images without alt and no lang give one critical issue
\* with count 2, one high issue, the score 60 and "Fails Level A".
C10_ScenarioA_AsStated ==
    (assigned.accessibility = 1 /\ ScenarioA(response)) =>
        ScenarioAIssues /\ results.accessibility.score = 60

\* C10 amended: two images without alt and no lang give one critical issue
\* with count 2, one high issue and "Fails Level A"; the score is 60 exactly
\* when no other check fires, and at most 57 on a page without a
\* skip-navigation link (57 when that is the only other issue).
C10_ScenarioA ==
    (assigned.accessibility = 1 /\ ScenarioA(response)) =>
        /\ ScenarioAIssues
        /\ results.accessibility.score = 60 <=> Len(results.accessibility.issues) = 2
        /\ ~response.hasSkipLink => results.accessibility.score <= 57
        /\ (~response.hasSkipLink /\ Len(results.accessibility.issues) = 3) =>
                results.accessibility.score = 57

C10_Witness ==
    /\ assigned.accessibility = 1 /\ ScenarioA(response)
    /\ ~response.hasSkipLink
    /\ Len(results.accessibility.issues) = 3
    /\ results.accessibility.score = 57

PageSpeedSucceeded == response.kind = "pagespeed" /\ response.ok

\* the order of the two strategies of the performance analyzer
PerformanceStrategyOrder ==
    /\ fetches \in {<<>>, <<"pagespeed">>, <<"basic">>, <<"pagespeed", "basic">>}
    /\ fetches # <<>> => (env.pagespeedApiKey <=> fetches[1] = "pagespeed")
    /\ step = "basic" => (fetches = <<"pagespeed">> /\ ~PageSpeedSucceeded /\ assigned.performance = 0)
    /\ (assigned.performance = 1 /\ fetches = <<"pagespeed">>) => PageSpeedSucceeded

\* the source tag of a Completed performance result
PerformanceSourceTag ==
    results.performance.status = "completed" =>
        /\ "source" \in DOMAIN results.performance
        /\ results.performance.source =
                (IF fetches = <<"pagespeed">> THEN "google-pagespeed" ELSE "basic-scan")

\* C11 as stated: the page-speed API is called only with a key, the basic
\* strategy runs after it when there is no key or the call fails, never before
\* it, and the output is always Completed and tagged with its source.
C11_PerformanceStrategy_AsStated ==
    /\ PerformanceStrategyOrder
    /\ PerformanceSourceTag
    /\ assigned.performance = 1 => results.performance.status = "completed"

\* C11 amended: the same order of the two strategies; the output is Completed
\* and tagged "google-pagespeed" exactly when the page-speed call succeeded,
\* Completed and tagged "basic-scan" when the basic strategy's fetch succeeded,
\* and Failed with score 0, an error and no source when that fetch failed.
C11_PerformanceStrategy ==
    /\ PerformanceStrategyOrder
    /\ PerformanceSourceTag
    /\ assigned.performance = 1 =>
        IF fetches # <<"pagespeed">> /\ response.kind = "error"
        THEN /\ results.performance.status = "failed"
             /\ results.performance.score = 0
             /\ results.performance.error # NoError
             /\ "source" \notin DOMAIN results.performance
        ELSE results.performance.status = "completed"

C11_Witness ==
    /\ fetches = <<"pagespeed", "basic">>
    /\ results.performance.status = "completed"
    /\ results.performance.source = "basic-scan"

\* C12: without a page-speed API key and with the target fetched, the
\* performance result has source "basic-scan", lighthouse_scores.performance
\* = score and lighthouse_scores.seo = max(0, score - 10).
C12_ScenarioC ==
    (~env.pagespeedApiKey /\ assigned.performance = 1 /\ response.kind = "http") =>
        LET p == results.performance
        IN  /\ p.status = "completed"
            /\ p.source = "basic-scan"
            /\ p.score \in 0..100
            /\ p.lighthouse_scores.performance = p.score
            /\ p.lighthouse_scores.seo = (IF p.score >= 10 THEN p.score - 10 ELSE 0)
            /\ fetches = <<"basic">>

C12_Witness ==
    /\ ~env.pagespeedApiKey /\ assigned.performance = 1 /\ response.kind = "http"
    /\ results.performance.score = 20
    /\ results.performance.lighthouse_scores.seo = 10

\* C13: when the e2e analyzer's fetch times out its slot is Failed with zero
\* counts and no primary actions, and the api analyzer, which fetches the
\* target itself, is Failed exactly when its own fetch fails.
C13_ScenarioD ==
    /\ (step = "api" /\ response = Timeout) =>
        /\ results.e2e.status = "failed"
        /\ results.e2e.error = Timeout.error
        /\ results.e2e.buttons_found = 0
        /\ results.e2e.links_found = 0
        /\ results.e2e.forms_found = 0
        /\ results.e2e.primary_actions = <<>>
    /\ step = "security" =>
        /\ fetches = <<"e2e", "api">>
        /\ results.api.status = (IF response.kind = "error" THEN "failed" ELSE "completed")

C13_Witness ==
    /\ step = "security"
    /\ results.e2e.status = "failed"
    /\ results.e2e.error = Timeout.error
    /\ results.api.status = "completed"
    /\ results.api.endpoints_detected = 2

\* C14: summarization cannot fail a scan. Without an API key, or with the
\* request failing, the analysis is {summary: null, recommendations: []},
\* nothing is thrown into processScan's catch, and the final update writes the
\* analyzer results, the overall score and the top issues as 'completed'.
C14_SummarizationNeverFails ==
    \A s \in Scans :
        /\ pc[s] = "catch" => observed[s].cause \in {"none", "update-error"}
        /\ (pc[s] = "done" /\ observed[s].ai \in {"skipped", "failed"}) =>
            /\ observed[s].cause = "completed"
            /\ scan_results[s].scan_status = "completed"
            /\ scan_results[s].ai_summary = Null
            /\ scan_results[s].ai_recommendations = <<>>
            /\ \A a \in AnalyzerNames :
                    scan_results[s].results[a].status \in {"completed", "failed"}
            /\ scan_results[s].overall_score \in 0..100
            /\ Len(scan_results[s].top_issues) <= 10

C14_Witness ==
    /\ ~env.geminiKey
    /\ pc[1] = "done"
    /\ observed[1].ai = "skipped"
    /\ scan_results[1].scan_status = "completed"
    /\ scan_results[1].ai_summary = Null
    /\ scan_results[1].overall_score > 0

Triggered == pc[1] = "started"

Ended(statuses) == pc[1] = "done" /\ scan_results[1].scan_status \in statuses

\* the handler has answered the scan's caller 200 'Scan started' by the time
\* processScan takes its first step, and scan_status only moves
\* pending -> processing -> completed | failed
AnsweredAtOnce ==
    /\ [](pc[1] # "idle" => answered[1] = [status |-> 200, message |-> "Scan started"])
    /\ [](Triggered => scan_results[1].scan_status = "pending")
    /\ [][scan_results'[1].scan_status # scan_results[1].scan_status =>
            <<scan_results[1].scan_status, scan_results'[1].scan_status>> \in
                {<<"none", "pending">>, <<"completed", "pending">>, <<"failed", "pending">>,
                 <<"pending", "processing">>,
                 <<"processing", "completed">>, <<"processing", "failed">>}]_vars

RegenerateSucceeded(s) ==
    /\ answered[s].status = 200
    /\ "ai_summary" \in DOMAIN answered[s]
    /\ scan_results[s].scan_status = "completed"

\* C16: after regenerate-ai has answered 200 for a completed scan, the row's
\* ai_summary is a non-empty string, the one returned in the response.
C16_RegeneratedSummary ==
    \A s \in Scans :
        RegenerateSucceeded(s) =>
            /\ scan_results[s].ai_summary = answered[s].ai_summary
            /\ scan_results[s].ai_summary \notin {Null, ""}

\* the place of a detected entry in the order in which the rules are evaluated
RuleRank(t) ==
    CASE t.category = "Server" -> 10
      [] t.category = "Web Server" -> 11
      [] t.name \in {"Next.js", "React"} -> 1
      [] t.name \in {"Nuxt.js", "Vue.js"} -> 2
      [] t.name = "Angular" -> 3
      [] t.name = "WordPress" -> 4
      [] t.name = "Drupal" -> 5
      [] t.name = "Svelte" -> 6
      [] t.name = "jQuery" -> 7
      [] t.name = "Tailwind CSS" -> 8
      [] t.name = "Bootstrap" -> 9
      [] t.name = "ASP.NET" -> 12

\* the place of a detected entry in the order framework families, CMS,
\* libraries, CSS frameworks, X-Powered-By, Server, ASP.NET
FamilyRank(t) ==
    CASE t.category = "Server" -> 4
      [] t.category = "Web Server" -> 5
      [] t.name \in {"Next.js", "React", "Nuxt.js", "Vue.js", "Angular", "Svelte"} -> 0
      [] t.name \in {"WordPress", "Drupal"} -> 1
      [] t.name = "jQuery" -> 2
      [] t.name \in {"Tailwind CSS", "Bootstrap"} -> 3
      [] t.name = "ASP.NET" -> 6

Ones(b) == IF b THEN 1 ELSE 0

\* how many rules the page in `response` matches
RulesMatched ==
    Ones(response.next \/ response.react) + Ones(response.nuxt \/ response.vue)
    + Ones(response.angular) + Ones(response.wordpress) + Ones(response.drupal)
    + Ones(response.svelte) + Ones(response.jquery)
    + Ones(response.tailwindWord \/ response.utilityClass)
    + Ones(response.bootstrapClass /\ ~response.tailwindWord)
    + Ones(response.poweredBy # NoValue) + Ones(response.server # NoValue)
    + Ones(response.aspnet)

\* a second run over the same body and headers changes nothing
TechStackIdempotent == [][step' = "rescanned" => results'.techStack = results.techStack]_vars

C18_StrategiesAgree ==
    (step = "api" /\ results.e2e.status = "completed") =>
        LET other == performE2EScan(response, ~env.domParser)
        IN  /\ results.e2e.buttons_found = other.buttons_found
            /\ results.e2e.links_found = other.links_found
            /\ results.e2e.forms_found = other.forms_found

\* the order of the awaits of performScan
AnalyzerOrder == <<"e2e", "api", "security", "performance", "accessibility", "techStack">>

\* the analyzer a fetch belongs to
AnalyzerOf(f) == IF f \in {"pagespeed", "basic"} THEN "performance" ELSE f

PlaceOf(a) == CHOOSE i \in 1..Len(AnalyzerOrder) : AnalyzerOrder[i] = a

AnalyzerStarted(a) == \E i \in 1..Len(fetches) : AnalyzerOf(fetches[i]) = a

Settled(a) == results[a].status \in {"completed", "failed"}

\* C19: the six analyzers run one at a time in the order e2e, api, security,
\* performance, accessibility, techStack; none starts before the slot of the
\* one before it is completed or failed, whichever of them fail.
C19_FixedOrder ==
    /\ \A i, j \in 1..Len(fetches) :
            i < j => /\ PlaceOf(AnalyzerOf(fetches[i])) <= PlaceOf(AnalyzerOf(fetches[j]))
                     /\ AnalyzerOf(fetches[i]) = AnalyzerOf(fetches[j])
                            => <<fetches[i], fetches[j]>> = <<"pagespeed", "basic">>
    /\ \A a \in AnalyzerNames :
            AnalyzerStarted(a) => \A k \in 1..(PlaceOf(a) - 1) :
                                        /\ AnalyzerStarted(AnalyzerOrder[k])
                                        /\ Settled(AnalyzerOrder[k])
    /\ \A a \in AnalyzerNames : ~AnalyzerStarted(a) => results[a].status = "pending"
    /\ Cardinality({a \in AnalyzerNames : AnalyzerStarted(a) /\ ~Settled(a)}) <= 1

C19_Witness ==
    /\ step = "returned"
    /\ results.e2e.status = "failed"
    /\ results.performance.status = "failed"
    /\ results.security.status = "completed"
    /\ fetches = <<"e2e", "api", "security", "pagespeed", "basic", "accessibility", "techStack">>

\* the reply to the analyzer that ran last is an HTTP response that is not OK
NonOkReply == response.kind = "http" /\ "status" \in DOMAIN response /\ ~isOk(response.status)

\* C20: a non-OK HTTP status makes the e2e slot failed, with zeroed counts and
\* the error 'HTTP <status>', while the api, security, accessibility and
\* tech-stack analyzers answered the same status end completed.
C20_NonOkStatus ==
    NonOkReply =>
        /\ step = "api" =>
                results.e2e = [status |-> "failed", error |-> httpError(response.status),
                               buttons_found |-> 0, links_found |-> 0, forms_found |-> 0,
                               primary_actions |-> <<>>]
        /\ step = "security" => results.api.status = "completed"
        /\ step = "performance" => results.security.status = "completed"
        /\ step = "techStack" => results.accessibility.status = "completed"
        /\ step = "returned" => results.techStack.status = "completed"

C20_Witness ==
    /\ step = "returned"
    /\ NonOkReply
    /\ results.e2e.status = "failed"
    /\ results.e2e.error = "HTTP 404"
    /\ \A a \in {"api", "security", "accessibility", "techStack"} : results[a].status = "completed"

\* the place of a topIssues entry in the order in which the issues were
\* pushed: the security issues as emitted, the accessibility issues as
\* emitted, then the performance entry
PushPlace(t) ==
    LET sec == results.security.issues
        acc == results.accessibility.issues
    IN  IF t.category = "Performance" THEN Len(sec) + Len(acc) + 1
        ELSE IF t.category = "Accessibility"
        THEN Len(sec) + (CHOOSE i \in 1..Len(acc) : acc[i].message = t.description)
        ELSE CHOOSE i \in 1..Len(sec) : sec[i].description = t.description

\* C21: among the entries of topIssues of equal severity the insertion order
\* is kept: security entries before accessibility entries before the
\* performance entry, each analyzer's entries in its emission order.
C21_StableOrder ==
    step = "aggregated" =>
        \A i, j \in 1..Len(topIssues) :
            (i < j /\ topIssues[i].severity = topIssues[j].severity)
                => PushPlace(topIssues[i]) < PushPlace(topIssues[j])

C21_Witness ==
    /\ step = "aggregated"
    /\ \E i, j, k, l \in 1..Len(topIssues) :
        /\ i < j /\ j < k /\ k < l
        /\ topIssues[i].category = "Security" /\ topIssues[j].category = "Security"
        /\ topIssues[k].category = "Accessibility" /\ topIssues[l].category = "Performance"
        /\ \A m \in {i, j, k, l} : topIssues[m].severity = "high"

DetectedNames == {results.techStack.detected[i].name : i \in 1..Len(results.techStack.detected)}

\* C22: whenever the body matches both the Tailwind utility-class pattern and
\* the Bootstrap class pattern, detected holds 'Tailwind CSS' and not
\* 'Bootstrap'.
C22_TailwindWins ==
    (/\ results.techStack.status = "completed"
     /\ response.utilityClass /\ response.bootstrapClass)
        => ("Tailwind CSS" \in DetectedNames /\ "Bootstrap" \notin DetectedNames)

\* C23: in both strategies primary_actions is the list of the first (up to
\* 5) non-empty button texts in document order, so both strategies return
\* the same primary_actions for the same buttons.
C23_PrimaryActionsAgree ==
    (step = "api" /\ results.e2e.status = "completed") =>
        LET texts == SelectSeq(response.buttons, NonEmptyText)
            first == [i \in 1..(IF Len(texts) < 5 THEN Len(texts) ELSE 5) |-> texts[i]]
        IN  /\ results.e2e.primary_actions = first
            /\ performE2EScan(response, ~env.domParser).primary_actions = first

\* C24: every reported endpoint has a path beginning with '/', method 'GET'
\* (also for axios.post) and status 0; endpoints holds at most 10 entries, in
\* match order, repeated literal paths kept as repeated entries.
C24_Endpoints ==
    (step = "security" /\ results.api.status = "completed") =>
        LET kept == SelectSeq(response.calls, startsWithSlash)
            endpoints == results.api.endpoints
        IN  /\ Len(endpoints) = (IF Len(kept) < 10 THEN Len(kept) ELSE 10)
            /\ \A i \in 1..Len(endpoints) :
                /\ endpoints[i].path = kept[i]
                /\ endpoints[i].path \in SlashPaths
                /\ endpoints[i].method = "GET"
                /\ endpoints[i].status = 0

C24_Witness ==
    /\ step = "security"
    /\ response.kind = "http" /\ response.idiom = "axios.post"
    /\ Len(response.calls) = 11
    /\ Len(results.api.endpoints) = 10
    /\ results.api.endpoints[2].path = "/api/orders"
    /\ results.api.endpoints[1] = results.api.endpoints[3]

\* what the page in `response` loses of the 100 points of the basic score
BasicDeduction ==
    (IF response.loadTime > 3000 THEN 30 ELSE IF response.loadTime > 1500 THEN 15 ELSE 0)
    + (IF response.imageCount > 20 THEN 10 ELSE 0)
    + (IF response.scriptCount > 15 THEN 10 ELSE 0)
    + (IF response.stylesheetCount > 5 THEN 5 ELSE 0)
    + (IF response.hasGzip THEN 0 ELSE 15)
    + (IF response.hasCaching THEN 0 ELSE 10)

\* C25: the basic performance score is max(0, 100 - d) with d the sum of the
\* deductions of the page; it is an integer of 20..100 and the floor at 0 is
\* never reached.
C25_BasicScore ==
    (step = "accessibility" /\ results.performance.status = "completed") =>
        /\ results.performance.score = 100 - BasicDeduction
        /\ results.performance.score \in 20..100
        /\ BasicDeduction <= 80

C25_Witness ==
    /\ step = "accessibility"
    /\ results.performance.status = "completed"
    /\ response.loadTime = 3000 /\ response.imageCount = 20
    /\ response.scriptCount = 16 /\ response.stylesheetCount = 6
    /\ ~response.hasGzip /\ ~response.hasCaching
    /\ results.performance.score = 45

EntriesOf(category) == {i \in 1..Len(topIssues) : topIssues[i].category = category}

\* C26: topIssues only reflects analyzers that completed: a failed
\* performance slot adds no 'Poor performance score' entry, and a failed
\* security or accessibility slot adds no entries.
C26_OnlyCompleted ==
    step = "aggregated" =>
        /\ results.performance.status = "failed" => EntriesOf("Performance") = {}
        /\ results.security.status = "failed" => EntriesOf("Security") = {}
        /\ results.accessibility.status = "failed" => EntriesOf("Accessibility") = {}

Retained == {topIssues[i] : i \in 1..Len(topIssues)}

\* the issues collected from the slots that topIssues leaves out
Omitted ==
    LET collected == collectIssues(results)
    IN  {collected[i] : i \in 1..Len(collected)} \ Retained

\* C27: when more than 10 issues are collected, every omitted issue has a
\* severity rank greater than or equal to that of every retained issue; no
\* critical issue is omitted while a high, medium or low one is retained.
C27_TruncationKeepsSevere ==
    step = "aggregated" =>
        \A o \in Omitted : \A t \in Retained :
            SeverityRank(o.severity) >= SeverityRank(t.severity)

\* no admitted scan of the host has its write of the rate-limit row pending
BookkeepingSettled(h) ==
    \A s \in Scans : pc[s] \in {"update", "insert"} => hostname(locals[s].url) # h

\* C28: under any interleaving of concurrent processScan invocations for the
\* same host no update of the rate-limit bookkeeping is lost: at most one row
\* per host, scan_count equal to the number of scans admitted since the row
\* was created, and no more than 5 scans admitted within the hour after
\* window_start.
C28_NoLostUpdate ==
    \A h \in Hosts :
        /\ Cardinality(RowsOf(h)) <= 1
        /\ \A i \in RowsOf(h) :
            /\ BookkeepingSettled(h) => rate_limits[i].scan_count = Len(admitted[h])
            /\ Cardinality({k \in 1..Len(admitted[h]) :
                    /\ admitted[h][k] >= rate_limits[i].window_start
                    /\ admitted[h][k] - rate_limits[i].window_start < Hour}) <= Limit

\* C29: the flattened fields persisted with a completed scan agree with the
\* security slot: security_checks_passed is security.checks_passed and
\* security_checks_total is security.checks_performed, whether the security
\* analyzer completed or failed (0 of 0 checks).
C29_FlattenedSecurity ==
    \A s \in Scans :
        scan_results[s].scan_status = "completed" =>
            /\ scan_results[s].security_checks_passed = scan_results[s].results.security.checks_passed
            /\ scan_results[s].security_checks_total = scan_results[s].results.security.checks_performed

ForwardMoves ==
    {<<"pending", "processing">>, <<"processing", "completed">>, <<"processing", "failed">>}

ResultColumns(row) == DOMAIN row \ {"ai_summary", "ai_recommendations"}

\* a step of processScan for the scan of slot s, and a step of regenerate-ai
ProcessScanStep(s) == pc'[s] # pc[s] /\ pc'[s] # "started"

RegenerateStep(s) == pc'[s] = pc[s] /\ scan_results'[s] # scan_results[s]

\* C30: scan_status only moves forward along pending -> processing ->
\* (completed | failed); analyzer results are written only together with
\* 'completed'; regenerate-ai changes only ai_summary and ai_recommendations.
C30_StatusForward ==
    [][\A s \in Scans :
        LET old == scan_results[s]
            new == scan_results'[s]
        IN  /\ (ProcessScanStep(s) /\ new.scan_status # old.scan_status)
                    => <<old.scan_status, new.scan_status>> \in ForwardMoves
            /\ (ProcessScanStep(s) /\ "results" \in DOMAIN new /\ "results" \notin DOMAIN old)
                    => new.scan_status = "completed"
            /\ ("results" \in DOMAIN new) => new.scan_status = "completed"
            /\ RegenerateStep(s)
                    => /\ ResultColumns(new) = ResultColumns(old)
                       /\ \A c \in ResultColumns(old) : new[c] = old[c]]_vars

C30_Witness ==
    /\ pc[1] = "done"
    /\ scan_results[1].scan_status = "completed"
    /\ "results" \in DOMAIN scan_results[1]
    /\ answered[1].status = 200
    /\ "ai_summary" \in DOMAIN answered[1]
    /\ scan_results[1].ai_summary = answered[1].ai_summary
    /\ started > 1

====
